---- MODULE Spec2Model ----
(***************************************************************************)
(* A model of samples/rag.py: a Streamlit page that ingests one PDF into   *)
(* an in-memory vector index and answers questions over it.                *)
(*                                                                         *)
(* Streamlit re-executes the whole script once per user interaction, one   *)
(* interaction at a time per session, so every action below is one         *)
(* complete script run.  The state that survives between runs is           *)
(* st.session_state (vectorstore, qa_chain), the widget value model_name   *)
(* and the file at PDF_PATH.  `run` records what the last script run       *)
(* showed and which external services it called.                           *)
(*                                                                         *)
(* Text is a sequence of one-character strings.  A chunk is recorded by    *)
(* the page it was cut from and the first and last position (1-based) of   *)
(* its text in that page; its text is that slice of the page.              *)
(***************************************************************************)
EXTENDS Integers, Sequences, FiniteSets

VARIABLES pdf, model_name, vectorstore, qa_chain, nextId, run, retrieved, clickModel

vars == <<pdf, model_name, vectorstore, qa_chain, nextId, run, retrieved, clickModel>>

-----------------------------------------------------------------------------
(* Configuration (rag.py lines 25-29) and the retriever's k (line 101).    *)

CHUNK_SIZE == 256
CHUNK_OVERLAP == 32
SEARCH_K == 3

(* Bounds of the model.                                                    *)
MaxIndexes == 2     \* vector indexes built in one session
PageLen == 600      \* characters on a full page of the sample documents
WordLen == 9        \* a blank every WordLen-th character on a page of words

None == "None"
NoFile == "NoFile"

Min(S) == CHOOSE x \in S : \A y \in S : x <= y
Max(S) == CHOOSE x \in S : \A y \in S : x >= y

-----------------------------------------------------------------------------
(* The files that can be at PDF_PATH.                                      *)

Letters == <<"a", "b", "c", "d", "e", "f", "g">>
Letter(i) == Letters[((i * i + (i \div 7)) % 7) + 1]

(* A page of n characters: a newline every nl-th character, a blank every  *)
(* sp-th, a letter elsewhere (nl = 0, sp = 0: none).                       *)
Page(n, sp, nl) ==
    [i \in 1..n |-> IF nl > 0 /\ i % nl = 0 THEN "\n"
                    ELSE IF sp > 0 /\ i % sp = 0 THEN " "
                    ELSE Letter(i)]

DocNames == {"manual", "notes", "scan"}

(* manual: a page without any whitespace and a page of words;              *)
(* notes:  a page of lines of words and a short page;                      *)
(* scan:   one page with no extractable text.                              *)
Documents ==
    [d \in DocNames |->
        CASE d = "manual" -> <<Page(PageLen, 0, 0), Page(PageLen, WordLen, 0)>>
          [] d = "notes"  -> <<Page(PageLen, WordLen - 1, 100), Page(10, 0, 0)>>
          [] d = "scan"   -> << <<>> >>]

ModelNames == {"llama3.2", "mistral"}
DefaultModel == "llama3.2"

(* What can be typed into the question field; the first is the empty text. *)
Questions == {<<>>, <<"a", "a", "b">>, <<"b", "c", "b">>}

-----------------------------------------------------------------------------
(* RecursiveCharacterTextSplitter(chunk_size = CHUNK_SIZE,                 *)
(* chunk_overlap = CHUNK_OVERLAP, length_function = len) as configured by  *)
(* load_and_split_pdf, with the class's defaults: separators               *)
(* ["\n\n", "\n", " ", ""], keep_separator = True (a separator stays at    *)
(* the start of the split that follows it) and strip_whitespace = True.    *)
(* A split is a pair <<first, last>> of positions of the page text t.      *)

Whitespace == {" ", "\n"}
Separators == << <<"\n", "\n">>, <<"\n">>, <<" ">>, <<>> >>

SpanLen(d) == d[2] - d[1] + 1

MatchAt(t, sep, i, hi) ==
    /\ i + Len(sep) - 1 <= hi
    /\ \A j \in 1..Len(sep) : t[i + j - 1] = sep[j]

(* re.split takes the leftmost matches that do not overlap: i starts one   *)
(* iff the separator is at i and no match that covers i started before.    *)
RECURSIVE IsMatchStart(_, _, _, _, _)
IsMatchStart(t, sep, i, lo, hi) ==
    /\ MatchAt(t, sep, i, hi)
    /\ \A j \in (i - Len(sep) + 1)..(i - 1) : j < lo \/ ~IsMatchStart(t, sep, j, lo, hi)

MatchStarts(t, sep, lo, hi) == {i \in lo..hi : IsMatchStart(t, sep, i, lo, hi)}

(* _split_text_with_regex: the pieces of t[lo..hi], each starting with the *)
(* separator that precedes it; the empty separator splits into characters; *)
(* empty pieces are dropped.                                               *)
SplitTextWithRegex(t, sep, lo, hi) ==
    IF Len(sep) = 0 THEN [k \in 1..(hi - lo + 1) |-> <<lo + k - 1, lo + k - 1>>]
    ELSE LET starts == MatchStarts(t, sep, lo, hi) \cup {lo}
             next(s) == {x \in starts : x > s}
         IN [k \in 1..Cardinality(starts) |->
                LET s == CHOOSE x \in starts : Cardinality({y \in starts : y < x}) = k - 1
                IN <<s, IF next(s) = {} THEN hi ELSE Min(next(s)) - 1>>]

(* _join_docs: the pieces s..e joined and stripped of leading and trailing *)
(* whitespace; nothing when only whitespace is left.                       *)
JoinDocs(t, s, e) ==
    LET body == {i \in s..e : t[i] \notin Whitespace}
    IN IF body = {} THEN <<>> ELSE << <<Min(body), Max(body)>> >>

(* _merge_splits, the pops after a chunk was emitted: with pieces f..d-1   *)
(* in current_doc and piece d next, pieces are popped from the front while *)
(* total > chunk_overlap, or while total + len(d) > chunk_size and         *)
(* total > 0.  The result is the first piece that stays (d: none stays).   *)
KeepFromNone(splits, f, d) == d

KeepFrom(splits, f, d) ==
    LET Total(g) == splits[d][1] - splits[g][1]
        len == SpanLen(splits[d])
    IN Min({g \in f..d : ~(Total(g) > CHUNK_OVERLAP
                           \/ (Total(g) + len > CHUNK_SIZE /\ Total(g) > 0))})

(* _merge_splits with current_doc = pieces f..prev (the pieces are         *)
(* adjacent, the joining separator is empty): the next piece d with        *)
(* total + len(d) > chunk_size and current_doc not empty emits a chunk.    *)
RECURSIVE MergeFrom(_, _, _, _)
MergeFrom(t, splits, f, prev) ==
    LET n == Len(splits)
        Total(d) == splits[d][1] - splits[f][1]
        flush == {d \in (prev + 1)..n :
                     d > f /\ Total(d) + SpanLen(splits[d]) > CHUNK_SIZE}
    IN IF flush = {}
       THEN JoinDocs(t, splits[f][1], splits[n][2])
       ELSE LET d == Min(flush)
            IN JoinDocs(t, splits[f][1], splits[d - 1][2])
                   \o MergeFrom(t, splits, KeepFrom(splits, f, d), d)

MergeSplits(t, splits) == MergeFrom(t, splits, 1, 0)

(* _split_text: split on the first separator found in the text; pieces     *)
(* shorter than chunk_size are merged run by run, a longer piece is split  *)
(* again with the separators that follow.                                  *)
RECURSIVE SplitText(_, _, _, _)
RECURSIVE SplitLoop(_, _, _, _)
SplitLoop(t, splits, i, newSeps) ==
    IF i > Len(splits) THEN <<>>
    ELSE IF SpanLen(splits[i]) < CHUNK_SIZE
    THEN LET bad == {j \in i..Len(splits) : SpanLen(splits[j]) >= CHUNK_SIZE}
             j == IF bad = {} THEN Len(splits) + 1 ELSE Min(bad)
         IN MergeSplits(t, SubSeq(splits, i, j - 1)) \o SplitLoop(t, splits, j, newSeps)
    ELSE (IF newSeps > Len(Separators) THEN <<splits[i]>>
          ELSE SplitText(t, splits[i][1], splits[i][2], newSeps))
         \o SplitLoop(t, splits, i + 1, newSeps)

SplitText(t, lo, hi, first) ==
    LET found == {k \in first..Len(Separators) :
                     Len(Separators[k]) = 0 \/ MatchStarts(t, Separators[k], lo, hi) # {}}
        k == Min(found)
    IN SplitLoop(t, SplitTextWithRegex(t, Separators[k], lo, hi), 1,
                 IF Len(Separators[k]) = 0 THEN Len(Separators) + 1 ELSE k + 1)

(* split_documents: the chunks of every page, in page order.               *)
RECURSIVE SplitDocuments(_, _)
SplitDocuments(pages, p) ==
    IF p > Len(pages) THEN <<>>
    ELSE LET spans == SplitText(pages[p], 1, Len(pages[p]), 1)
         IN [k \in 1..Len(spans) |->
                [page |-> p, start |-> spans[k][1], end |-> spans[k][2]]]
            \o SplitDocuments(pages, p + 1)

(* The splitter is a function of the document: computed once per file.     *)
SplitOf == [d \in DocNames |-> SplitDocuments(Documents[d], 1)]

(* load_and_split_pdf: PyPDFLoader yields one document per page.           *)
LoadAndSplitPdf(file) ==
    [chunks |-> SplitOf[file], num_pages |-> Len(Documents[file])]

ChunkText(file, c) == SubSeq(Documents[file][c.page], c.start, c.end)

-----------------------------------------------------------------------------
(* OllamaEmbeddings: the embedding service maps a text to a vector and     *)
(* maps equal texts to equal vectors.  Here: how often "a" and "b" occur.  *)

Embed(t) == <<Cardinality({i \in 1..Len(t) : t[i] = "a"}),
              Cardinality({i \in 1..Len(t) : t[i] = "b"})>>

(* The embedder is a function of the chunk texts: computed once per file.  *)
VectorsOf ==
    [d \in DocNames |-> [k \in 1..Len(SplitOf[d]) |-> Embed(ChunkText(d, SplitOf[d][k]))]]

(* st.session_state.vectorstore = None, st.session_state.qa_chain = None.  *)
NoIndex == [id |-> 0, file |-> NoFile, docs |-> <<>>, vectors |-> <<>>]
NoRetriever == [index |-> NoIndex, k |-> 0]
NoChain == [chain |-> [retriever |-> NoRetriever, llm |-> None], retriever |-> NoRetriever]

(* create_vectorstore: FAISS.from_documents embeds every chunk and stores  *)
(* chunk k with its vector at position k of a new index (identity id).     *)
CreateVectorstore(file, chunks, id) ==
    [id |-> id, file |-> file, docs |-> chunks, vectors |-> VectorsOf[file]]

(* The squared L2 distance of IndexFlatL2.                                 *)
Distance(u, v) == (u[1] - v[1]) * (u[1] - v[1]) + (u[2] - v[2]) * (u[2] - v[2])

(* The k nearest positions of the index, nearest first (on equal distance  *)
(* the lower position first); all of them when the index holds fewer.      *)
RECURSIVE Nearest(_, _, _, _)
Nearest(vectors, qv, cands, k) ==
    IF k = 0 \/ cands = {} THEN <<>>
    ELSE LET best == CHOOSE c \in cands : \A o \in cands :
                        \/ Distance(vectors[c], qv) < Distance(vectors[o], qv)
                        \/ Distance(vectors[c], qv) = Distance(vectors[o], qv) /\ c <= o
         IN <<best>> \o Nearest(vectors, qv, cands \ {best}, k - 1)

(* retriever.invoke(question): similarity_search with the retriever's k on *)
(* the index the retriever was made from.  A returned document is named    *)
(* by its index and position, and carries the chunk.                       *)
RetrieverInvoke(r, question) ==
    LET hits == Nearest(r.index.vectors, Embed(question), 1..Len(r.index.vectors), r.k)
    IN [n \in 1..Len(hits) |->
           [store |-> r.index.id, pos |-> hits[n],
            file |-> r.index.file, chunk |-> r.index.docs[hits[n]]]]

-----------------------------------------------------------------------------
(* ingest_pdf (lines 58-74).  `ext` is what the outside does during the    *)
(* call: the PDF parser or the embedding service may raise.  An index of   *)
(* no chunks cannot be built: FAISS.from_documents raises on an empty      *)
(* list.  `calls` lists the stages that were invoked.                      *)

IngestOutcomes == {"ok", "load_raises", "embed_raises"}

IngestPdfUnchecked(file, ext, id) ==
    IF file = NoFile \/ ext = "load_raises"
    THEN [success |-> FALSE, message |-> "error", vectorstore |-> NoIndex,
          calls |-> {"loader"}]
    ELSE [success |-> TRUE, message |-> "ingested",
          vectorstore |-> CreateVectorstore(file, LoadAndSplitPdf(file).chunks, id),
          calls |-> {"loader", "splitter", "embedder"}]

IngestPdf(file, ext, id) ==
    IF file = NoFile
    THEN [success |-> FALSE, message |-> "not_found", vectorstore |-> NoIndex,
          calls |-> {}]
    ELSE IF ext = "load_raises"
    THEN [success |-> FALSE, message |-> "error", vectorstore |-> NoIndex,
          calls |-> {"loader"}]
    ELSE LET chunks == LoadAndSplitPdf(file).chunks
         IN IF ext = "embed_raises" \/ Len(chunks) = 0
            THEN [success |-> FALSE, message |-> "error", vectorstore |-> NoIndex,
                  calls |-> {"loader", "splitter", "embedder"}]
            ELSE [success |-> TRUE, message |-> "ingested",
                  vectorstore |-> CreateVectorstore(file, chunks, id),
                  calls |-> {"loader", "splitter", "embedder"}]

(* initialize_qa_chain (lines 76-114): the chain and the bundle hold the   *)
(* one retriever made by vectorstore.as_retriever(search_kwargs={"k": 3}). *)
AsRetriever(vs, k) == [index |-> vs, k |-> k]

InitializeQaChainOwnRetriever(vs, model) ==
    [chain |-> [retriever |-> AsRetriever(vs, SEARCH_K), llm |-> model],
     retriever |-> AsRetriever(vs, SEARCH_K + 1)]

InitializeQaChain(vs, model) ==
    [chain |-> [retriever |-> AsRetriever(vs, SEARCH_K), llm |-> model],
     retriever |-> AsRetriever(vs, SEARCH_K)]

-----------------------------------------------------------------------------
(* What one script run showed and called.                                  *)
(*   kind      "start" | "rerun" | "ingest" | "query"                      *)
(*   exists    Path(PDF_PATH).exists() as ingest_pdf saw it                *)
(*   success, message, built   the triple ingest_pdf returned              *)
(*   raised    the run ended in an exception nothing caught                *)
(*   calls     the external stages invoked                                 *)
(*   question  the submitted question                                      *)
(*   llm       the model the answer was generated with                     *)
(*   context   the documents the chain retrieved and joined as context     *)
(*   answered  an answer was displayed                                     *)
(*   shown     "View Source Context" was filled; sources: what it lists    *)
(*   failed    the query's except branch showed an error                   *)
(*   repeat    the question had been answered from retrieval since the     *)
(*             last "Process PDF" click                                    *)
Idle ==
    [kind |-> "start", exists |-> FALSE, success |-> FALSE, message |-> None,
     built |-> NoIndex, raised |-> FALSE, calls |-> {}, question |-> <<>>,
     llm |-> None, context |-> <<>>, answered |-> FALSE, shown |-> FALSE,
     sources |-> <<>>, failed |-> FALSE, repeat |-> FALSE]

NotSeen == [seen |-> FALSE, ids |-> {}]

Ids(docs) == {<<docs[n].store, docs[n].pos>> : n \in 1..Len(docs)}

Init ==
    /\ pdf \in {NoFile} \cup DocNames
    /\ model_name = DefaultModel             \* st.text_input(..., value="llama3.2")
    /\ vectorstore = NoIndex                 \* lines 32-33
    /\ qa_chain = NoChain                    \* lines 34-35
    /\ nextId = 1
    /\ run = Idle
    /\ retrieved = [q \in Questions |-> NotSeen]
    /\ clickModel = None

(* The file at PDF_PATH is put, replaced or removed from outside.          *)
PutFile(d) ==
    /\ d # pdf
    /\ pdf' = d
    /\ UNCHANGED <<model_name, vectorstore, qa_chain, nextId, run, retrieved, clickModel>>

RemoveFile ==
    /\ pdf # NoFile
    /\ pdf' = NoFile
    /\ UNCHANGED <<model_name, vectorstore, qa_chain, nextId, run, retrieved, clickModel>>

(* The user edits the "Ollama Model" field (line 122): the script reruns   *)
(* with no button pressed and nothing submitted.                           *)
ChangeModel(m) ==
    /\ m # model_name
    /\ model_name' = m
    /\ run' = [Idle EXCEPT !.kind = "rerun"]
    /\ UNCHANGED <<pdf, vectorstore, qa_chain, nextId, retrieved, clickModel>>

(* Lines 139-141: what the button handler stores in                        *)
(* st.session_state.vectorstore after ingest_pdf returned res.             *)
StoreAlways(vs, res) == res.vectorstore

StoreAfterIngest(vs, res) == IF res.success THEN res.vectorstore ELSE vs

(* The "Process PDF" button (lines 137-148).  The index is stored first;   *)
(* initialize_qa_chain runs after that, outside any try, so when it raises *)
(* (init = "raises") the script run ends there and qa_chain keeps what it  *)
(* held.  A FAISS object is always truthy (line 142).                      *)
ClickProcess(ext, init) ==
    /\ nextId <= MaxIndexes
    /\ LET res == IngestPdf(pdf, ext, nextId)
           vs == StoreAfterIngest(vectorstore, res)
           built == res.success /\ vs # NoIndex
       IN /\ vectorstore' = vs
          /\ qa_chain' = IF built /\ init = "ok"
                         THEN InitializeQaChain(vs, model_name)
                         ELSE qa_chain
          /\ nextId' = IF res.success THEN nextId + 1 ELSE nextId
          /\ clickModel' = IF res.success THEN model_name ELSE clickModel
          /\ run' = [Idle EXCEPT !.kind = "ingest",
                                 !.exists = (pdf # NoFile),
                                 !.success = res.success,
                                 !.message = res.message,
                                 !.built = res.vectorstore,
                                 !.calls = res.calls,
                                 !.raised = (built /\ init = "raises")]
    /\ retrieved' = [q \in Questions |-> NotSeen]
    /\ UNCHANGED <<pdf, model_name>>

(* Line 157: the main interface shows only a warning.                      *)
NeedsIngest(vs, qa) == vs = NoIndex \/ qa = NoChain

(* Line 166: the form was submitted with a question.                       *)
SubmittedAny(submit_button, question) == submit_button

Submitted(submit_button, question) == submit_button /\ question # <<>>

(* Lines 166-186 write nothing to st.session_state.                        *)
SessionAfterQueryCleared(vs, qa, failed) ==
    [vectorstore |-> vs, qa_chain |-> IF failed THEN NoChain ELSE qa]

SessionAfterQueryRebuilt(vs, qa, failed) ==
    [vectorstore |-> vs,
     qa_chain |-> IF qa = NoChain THEN qa ELSE InitializeQaChain(vs, qa.chain.llm)]

SessionAfterQuery(vs, qa, failed) == [vectorstore |-> vs, qa_chain |-> qa]

QueryOutcomes == {"ok", "retriever_raises", "llm_raises", "sources_raise"}

(* The question form (lines 157-186) in a run with the form submitted.     *)
(* chain.invoke retrieves the context with the chain's retriever and calls *)
(* the chain's model once; then the handler asks the bundle's retriever    *)
(* again for the sources it lists.  Every exception is caught at line 184. *)
SubmitQuestion(question, ext) ==
    LET gate == ~NeedsIngest(vectorstore, qa_chain) /\ Submitted(TRUE, question)
        none == qa_chain = NoChain      \* qa_bundle["chain"] raises on None
        context == RetrieverInvoke(qa_chain.chain.retriever, question)
        sources == RetrieverInvoke(qa_chain.retriever, question)
        gotContext == gate /\ ~none /\ ext # "retriever_raises"
        answered == gotContext /\ ext # "llm_raises"
        shown == answered /\ ext # "sources_raise"
        failed == gate /\ ~shown
        after == SessionAfterQuery(vectorstore, qa_chain, failed)
    IN /\ ~gate => ext = "ok"
       /\ run' = [Idle EXCEPT !.kind = "query",
                              !.question = question,
                              !.calls = (IF gate /\ ~none THEN {"retriever"} ELSE {})
                                        \cup (IF gotContext THEN {"llm"} ELSE {}),
                              !.llm = IF gotContext THEN qa_chain.chain.llm ELSE None,
                              !.context = IF gotContext THEN context ELSE <<>>,
                              !.answered = answered,
                              !.shown = shown,
                              !.sources = IF shown THEN sources ELSE <<>>,
                              !.failed = failed,
                              !.repeat = gotContext /\ retrieved[question].seen]
       /\ retrieved' = IF gotContext /\ ~retrieved[question].seen
                       THEN [retrieved EXCEPT ![question] =
                                [seen |-> TRUE, ids |-> Ids(context)]]
                       ELSE retrieved
       /\ vectorstore' = after.vectorstore
       /\ qa_chain' = after.qa_chain
       /\ UNCHANGED <<pdf, model_name, nextId, clickModel>>

Next ==
    \/ \E d \in DocNames : PutFile(d)
    \/ RemoveFile
    \/ \E m \in ModelNames : ChangeModel(m)
    \/ \E ext \in IngestOutcomes, init \in {"ok", "raises"} : ClickProcess(ext, init)
    \/ \E q \in Questions, ext \in QueryOutcomes : SubmitQuestion(q, ext)

Spec == Init /\ [][Next]_vars

-----------------------------------------------------------------------------
(* Properties.                                                             *)

External == {"retriever", "llm"}

(* The content of a retrieved document: the file and the chunk cut from it. *)
Contents(docs) == {[file |-> docs[n].file, chunk |-> docs[n].chunk] : n \in 1..Len(docs)}

(* docs are min(k, n) different chunks of the n-chunk index, and no chunk  *)
(* left out is nearer to the question than one of them.                    *)
IsNearest(docs, index, question, k) ==
    LET n == Len(index.docs)
        qv == Embed(question)
        m == IF n < k THEN n ELSE k
    IN /\ Len(docs) = m
       /\ \E P \in SUBSET (1..n) :
             /\ Cardinality(P) = m
             /\ Contents(docs) = {[file |-> index.file, chunk |-> index.docs[p]] : p \in P}
             /\ \A p \in P, o \in (1..n) \ P :
                   Distance(index.vectors[p], qv) <= Distance(index.vectors[o], qv)

(* The pairs of chunks of an index that follow each other on one page.     *)
Adjacent(index) ==
    {i \in 1..(Len(index.docs) - 1) : index.docs[i].page = index.docs[i + 1].page}

(* The number of chunks of the same page before chunk i.                   *)
Rank(index, i) == Cardinality({j \in 1..(i - 1) : index.docs[j].page = index.docs[i].page})

PageOf(index, i) == Documents[index.file][index.docs[i].page]

NoWhitespace(t) == \A i \in 1..Len(t) : t[i] \notin Whitespace

Text(index, i) == ChunkText(index.file, index.docs[i])

Last(t, n) == SubSeq(t, Len(t) - n + 1, Len(t))
First(t, n) == SubSeq(t, 1, n)

(* Chunk i and chunk i+1 share exactly CHUNK_OVERLAP characters and chunk  *)
(* i+1 starts at its rank times (CHUNK_SIZE - CHUNK_OVERLAP).              *)
FixedStride(index, i) ==
    /\ Len(Text(index, i)) >= CHUNK_OVERLAP
    /\ Len(Text(index, i + 1)) >= CHUNK_OVERLAP
    /\ Last(Text(index, i), CHUNK_OVERLAP) = First(Text(index, i + 1), CHUNK_OVERLAP)
    /\ index.docs[i].start - 1 = Rank(index, i) * (CHUNK_SIZE - CHUNK_OVERLAP)
    /\ index.docs[i + 1].start - 1 = Rank(index, i + 1) * (CHUNK_SIZE - CHUNK_OVERLAP)

(* The number of page positions chunk i and chunk i+1 both cover.          *)
Shared(index, i) ==
    IF index.docs[i].end < index.docs[i + 1].start THEN 0
    ELSE index.docs[i].end - index.docs[i + 1].start + 1

(* C1: the stored pipeline is absent or was built from the index that is   *)
(* stored now.  Violated: the handler stores the new index before it       *)
(* builds the pipeline, so a raise in initialize_qa_chain leaves the new   *)
(* index beside the pipeline of the index before.                          *)
C1_PipelineBuiltFromStoredIndex ==
    qa_chain # NoChain =>
        /\ qa_chain.retriever.index = vectorstore
        /\ qa_chain.chain.retriever.index = vectorstore

(* C2: with no file at PDF_PATH, ingest_pdf returns failure with the       *)
(* "not found" message and no index, and invokes neither the loader, the   *)
(* splitter nor the embedder.                                              *)
C2_MissingFileFailsBeforeAnyStage ==
    (run.kind = "ingest" /\ ~run.exists) =>
        /\ ~run.success
        /\ run.message = "not_found"
        /\ run.built = NoIndex
        /\ run.calls = {}

C2_Witness ==
    /\ run.kind = "ingest"
    /\ ~run.exists
    /\ run.message = "not_found"
    /\ vectorstore # NoIndex

(* C3: a script run whose ingest failed (missing file, or an exception     *)
(* while loading, splitting or embedding) leaves vectorstore and qa_chain  *)
(* as they were before the run.                                            *)
C3_FailedIngestKeepsSession ==
    [][(run'.kind = "ingest" /\ ~run'.success) =>
          (vectorstore' = vectorstore /\ qa_chain' = qa_chain)]_vars

C3_Witness ==
    /\ run.kind = "ingest"
    /\ ~run.success
    /\ run.message = "error"
    /\ "embedder" \in run.calls
    /\ vectorstore # NoIndex
    /\ qa_chain # NoChain

(* C4: a script run that handles a submitted question, answered or failed, *)
(* leaves vectorstore and qa_chain as they were.                           *)
C4_QueryKeepsSession ==
    [][run'.kind = "query" => (vectorstore' = vectorstore /\ qa_chain' = qa_chain)]_vars

C4_Witness ==
    /\ run.kind = "query"
    /\ run.failed
    /\ "llm" \in run.calls
    /\ ~run.answered
    /\ qa_chain # NoChain

(* C5: a question asked again with no "Process PDF" click in between gets  *)
(* the retrieved chunk identifiers it got the first time, as context and   *)
(* as listed sources.                                                      *)
C5_SameQuestionSameChunks ==
    (run.kind = "query" /\ run.repeat) =>
        /\ Ids(run.context) = retrieved[run.question].ids
        /\ run.shown => Ids(run.sources) = retrieved[run.question].ids

C5_Witness ==
    /\ run.kind = "query"
    /\ run.repeat
    /\ run.shown
    /\ Ids(run.sources) # {}
    /\ \E q \in Questions : q # run.question /\ retrieved[q].seen

(* C6: the sources listed for a question are the min(3, n) chunks of the   *)
(* index stored in the session that are nearest to the question.           *)
(* Violated after C1's failure: the pipeline still searches the index it   *)
(* was built from, not the one stored now.                                 *)
C6_SourcesNearestInStoredIndex ==
    (run.kind = "query" /\ run.shown) =>
        IsNearest(run.sources, vectorstore, run.question, SEARCH_K)

(* What holds of every query instead: the sources are the min(3, n)        *)
(* nearest chunks of the index the pipeline was built from, at most 3 and  *)
(* at least one.                                                           *)
SourcesNearestInPipelineIndex ==
    (run.kind = "query" /\ run.shown) =>
        /\ IsNearest(run.sources, qa_chain.retriever.index, run.question, SEARCH_K)
        /\ Len(run.sources) \in 1..SEARCH_K

(* C7 as stated: every two chunks that follow each other on a page share   *)
(* exactly CHUNK_OVERLAP characters, chunk i starting at offset i * 224.   *)
(* Violated on a page with blanks or newlines: the splitter cuts at        *)
(* separators and keeps whole pieces as overlap.                           *)
C7_FixedStrideOnEveryPage ==
    \A i \in Adjacent(vectorstore) : FixedStride(vectorstore, i)

(* C7 amended: no chunk is longer than CHUNK_SIZE, two chunks that follow  *)
(* each other on a page share at most CHUNK_OVERLAP characters, and on a   *)
(* page without whitespace they share exactly CHUNK_OVERLAP characters,    *)
(* chunk i starting at offset i * (CHUNK_SIZE - CHUNK_OVERLAP).            *)
C7_OverlapAtMostConfigured ==
    /\ \A i \in 1..Len(vectorstore.docs) :
          Len(Text(vectorstore, i)) \in 1..CHUNK_SIZE
    /\ \A i \in Adjacent(vectorstore) :
          /\ Shared(vectorstore, i) <= CHUNK_OVERLAP
          /\ vectorstore.docs[i].start < vectorstore.docs[i + 1].start
          /\ NoWhitespace(PageOf(vectorstore, i)) => FixedStride(vectorstore, i)

C7_Witness ==
    /\ \E i \in Adjacent(vectorstore) :
          /\ NoWhitespace(PageOf(vectorstore, i))
          /\ Rank(vectorstore, i) = 1
          /\ FixedStride(vectorstore, i)
    /\ \E i \in Adjacent(vectorstore) :
          /\ ~NoWhitespace(PageOf(vectorstore, i))
          /\ Shared(vectorstore, i) < CHUNK_OVERLAP

(* C8: an answer is generated with the model name that was in the field at *)
(* the last "Process PDF" click whose ingest succeeded.  Violated after    *)
(* C1's failure: that click stored no pipeline, and the pipeline of the    *)
(* click before it, with its model, stays in use.                          *)
C8_AnswerUsesModelOfLastSuccessfulClick ==
    (run.kind = "query" /\ "llm" \in run.calls) => run.llm = clickModel

(* What holds instead: editing the field leaves the pipeline alone, and a  *)
(* query uses the model held by the stored pipeline, whatever the field    *)
(* says.                                                                   *)
FieldEditKeepsPipeline ==
    [][model_name' # model_name => qa_chain' = qa_chain]_vars

AnswerUsesPipelineModel ==
    (run.kind = "query" /\ "llm" \in run.calls) => run.llm = qa_chain.chain.llm

StaleModelReached ==
    /\ run.kind = "query"
    /\ run.answered
    /\ run.llm # model_name

(* C9: the retriever and the language model are invoked only in a run that *)
(* found an index and a pipeline in the session and got a non-empty        *)
(* question; before the first successful ingest they are never invoked.    *)
C9_NoCallWithoutIndexPipelineQuestion ==
    /\ (run.calls \cap External # {}) =>
          /\ vectorstore # NoIndex
          /\ qa_chain # NoChain
          /\ run.question # <<>>
    /\ clickModel = None => run.calls \cap External = {}

C9_Witness ==
    /\ run.kind = "query"
    /\ run.question # <<>>
    /\ clickModel = None
    /\ pdf # NoFile
    /\ run.calls = {}

(* C10: when the answer and the sources are both displayed, the sources    *)
(* listed are the documents that were joined as the answer's context.      *)
C10_SourcesShownAreTheContext ==
    (run.kind = "query" /\ run.answered /\ run.shown) => run.sources = run.context

C10_Witness ==
    /\ run.kind = "query"
    /\ run.answered
    /\ run.shown
    /\ Len(run.context) = SEARCH_K
    /\ qa_chain.retriever.index # vectorstore

====
